---- MODULE Spec2Model ----
(***************************************************************************)
(* Model of time_series.py: segment_basic, segment_by_threshold and        *)
(* xcov_multi_with_confidence.  Arrays are TLA+ sequences; the source's    *)
(* positions are 0-based, so position p of an array a is a[p + 1].         *)
(***************************************************************************)
EXTENDS Integers, Sequences, FiniteSets, TLC

VARIABLES pc, op, bx, x, threshold, t_given, t, status, starts, ends,
          segments, seg_shape, peak_values, lookups,
          xs, ys, lag_backward, lag_forward, normed, lag, raised_at,
          all_xs, all_ys, covs, p_values, lbs, ubs

vars == <<pc, op, bx, x, threshold, t_given, t, status, starts, ends,
          segments, seg_shape, peak_values, lookups,
          xs, ys, lag_backward, lag_forward, normed, lag, raised_at,
          all_xs, all_ys, covs, p_values, lbs, ubs>>

segVars == <<bx, x, threshold, t_given, t, starts, ends,
             segments, seg_shape, peak_values, lookups>>

xcovVars == <<xs, ys, lag_backward, lag_forward, normed, lag, raised_at,
              all_xs, all_ys, covs, p_values, lbs, ubs>>

(* ------------------------------ bounds -------------------------------- *)
MaxLen == 4        \* longest signal x
MaxVal == 2        \* samples are 0..MaxVal, thresholds 0..MaxVal - 1
MaxOrigin == 1     \* a supplied t starts at 0..MaxOrigin
MaxStep == 2       \* a supplied t has spacing 1..MaxStep
MaxSeries == 2     \* most series in xs or ys
MaxSerLen == 2     \* longest series
MaxLag == 2        \* lag_backward, lag_forward are 0..MaxLag

(* ------------------------- numpy primitives --------------------------- *)
SeqsUpTo(S, n) == UNION {[1..k -> S] : k \in 0..n}

\* np.arange(n, dtype=int)
arange(n) == [i \in 1..n |-> i - 1]

\* numpy.concatenate of two arrays
cc(a, b) == a \o b

\* .astype(int) of a boolean array
astype_int(b) == [i \in 1..Len(b) |-> IF b[i] THEN 1 ELSE 0]

\* np.diff
diff(a) == [i \in 1..(Len(a) - 1) |-> a[i + 1] - a[i]]

\* (mask).nonzero()[0]: the 0-based positions of the true entries, ascending
nonzero(mask) == SelectSeq(arange(Len(mask)), LAMBDA i : mask[i + 1])

\* a == v, elementwise
eq(a, v) == [i \in 1..Len(a) |-> a[i] = v]

\* t[idx] for an index array idx is defined when every index is in range
in_range(a, idx) == \A k \in 1..Len(idx) : idx[k] \in 0..(Len(a) - 1)

\* t[idx] for an index array idx
take(a, idx) == [k \in 1..Len(idx) |-> a[idx[k] + 1]]

\* a[lo:hi] for 0 <= lo <= hi <= len(a)
slice(a, lo, hi) == SubSeq(a, lo + 1, hi)

RECURSIVE np_max(_)
\* np.max of a non-empty array
np_max(a) ==
    IF Len(a) = 1 THEN a[1]
    ELSE LET m == np_max(Tail(a)) IN IF a[1] >= m THEN a[1] ELSE m

\* np.argmax: the first position of the maximum
np_argmax(a) == (CHOOSE i \in 1..Len(a) :
                    /\ a[i] = np_max(a)
                    /\ \A j \in 1..(i - 1) : a[j] # np_max(a)) - 1

(* --------------------------- segment_basic ---------------------------- *)
\* mutant: no sentinel in front of x
rising_edges_no_sentinel(b) == nonzero(eq(diff(astype_int(b)), 1))

\* line 23: positions of the rising edges
rising_edges(b) == nonzero(eq(diff(astype_int(cc(<<FALSE>>, b))), 1))

\* line 24: positions of the falling edges
falling_edges(b) == nonzero(eq(diff(astype_int(cc(b, <<FALSE>>))), -1))

\* mutant: the + 1 is left out
basic_ends_no_increment(tt, b) == take(tt, falling_edges(b))

\* line 24: ends = t[falling edges] + 1
basic_ends(tt, b) == [k \in 1..Len(falling_edges(b)) |-> take(tt, falling_edges(b))[k] + 1]

segment_basic(b, given, tt0) ==
    LET tt == IF given THEN tt0 ELSE arange(Len(b))
    IN  IF in_range(tt, rising_edges(b)) /\ in_range(tt, falling_edges(b))
        THEN [status |-> "ok",
              starts |-> take(tt, rising_edges(b)),
              ends   |-> basic_ends(tt, b)]
        ELSE [status |-> "IndexError", starts |-> <<>>, ends |-> <<>>]

(* ------------------------ segment_by_threshold ------------------------ *)
\* line 45: the boolean signal handed to segment_basic
above(sig, thr) == [i \in 1..Len(sig) |-> sig[i] > thr]

\* mutant: every row starts at its own offset
seg_starts_own(offsets) == offsets

\* line 51: starts = [0] + offsets[:-1]
seg_starts(offsets) == <<0>> \o slice(offsets, 0, Len(offsets) - 1)

\* mutant: the last row ends at the last sample, len(x) - 1
seg_ends_last_sample(onsets, n) == slice(onsets, 1, Len(onsets)) \o <<n - 1>>

\* line 53: ends = onsets[1:] + [len(x)]
seg_ends(onsets, n) == slice(onsets, 1, Len(onsets)) \o <<n>>

\* mutant: the last position of the maximum
peak_time_last(sig, onset, offset) ==
    onset + (CHOOSE i \in 1..(offset - onset) :
                /\ sig[onset + i] = np_max(slice(sig, onset, offset))
                /\ \A j \in (i + 1)..(offset - onset) :
                      sig[onset + j] # np_max(slice(sig, onset, offset))) - 1

\* line 60: onset + np.argmax(x[onset:offset])
peak_time(sig, onset, offset) == onset + np_argmax(slice(sig, onset, offset))

\* line 61: np.max(x[onset:offset])
peak_value(sig, onset, offset) == np_max(slice(sig, onset, offset))

segment_by_threshold(sig, thr, given, tt0) ==
    LET tt == IF given THEN tt0 ELSE arange(Len(sig) + 1)
        sb == segment_basic(above(sig, thr), FALSE, <<>>)
        onsets == sb.starts
        offsets == sb.ends
        k == Len(onsets)
        sts == seg_starts(offsets)
        ens == seg_ends(onsets, Len(sig))
        pts == [i \in 1..k |-> peak_time(sig, onsets[i], offsets[i])]
        pvs == [i \in 1..k |-> peak_value(sig, onsets[i], offsets[i])]
        looked == {sts[i] : i \in 1..k} \cup {onsets[i] : i \in 1..k}
                  \cup {pts[i] : i \in 1..k} \cup {offsets[i] : i \in 1..k}
                  \cup {ens[i] : i \in 1..k}
    IN  IF k = 0
        THEN [status |-> "ok", segments |-> <<>>, shape |-> <<0, 5>>,
              peak_values |-> <<>>, lookups |-> {}]
        ELSE IF \A p \in looked : p \in 0..(Len(tt) - 1)
        THEN [status |-> "ok",
              segments |-> [i \in 1..k |->
                              <<tt[sts[i] + 1], tt[onsets[i] + 1], tt[pts[i] + 1],
                                tt[offsets[i] + 1], tt[ens[i] + 1]>>],
              shape |-> <<k, 5>>,
              peak_values |-> pvs,
              lookups |-> looked]
        ELSE [status |-> "IndexError", segments |-> <<>>, shape |-> <<0, 0>>,
              peak_values |-> <<>>, lookups |-> looked]

(* --------------------- xcov_multi_with_confidence --------------------- *)
\* the default of the confidence parameter, in percent
confidence == 95

\* line 91: np.all([len(x) == len(y) for x, y in zip(xs, ys)])
shape_ok(xss, yss) ==
    \A i \in 1..(IF Len(xss) <= Len(yss) THEN Len(xss) ELSE Len(yss)) :
        Len(xss[i]) = Len(yss[i])

\* mutant: the range includes lag_forward
lag_range_inclusive(backward, forward) == (-backward)..forward

\* line 99: range(-lag_backward, lag_forward)
lag_range(backward, forward) == (-backward)..(forward - 1)

\* the list comprehension [f(s) for s in ss if len(s) > n]
longer_than(ss, n) == SelectSeq(ss, LAMBDA s : Len(s) > n)

\* lines 101, 104, 109: the windows of xs used at lag l
x_rel(xss, l) ==
    IF l = 0 THEN xss
    ELSE IF l < 0
    THEN [i \in 1..Len(longer_than(xss, -l)) |->
            slice(longer_than(xss, -l)[i], -l, Len(longer_than(xss, -l)[i]))]
    ELSE [i \in 1..Len(longer_than(xss, l)) |->
            slice(longer_than(xss, l)[i], 0, Len(longer_than(xss, l)[i]) - l)]

\* mutant: ys is windowed like xs, so the two windows are not shifted
y_rel_unshifted(yss, l) == x_rel(yss, l)

\* lines 102, 105, 110: the windows of ys used at lag l
y_rel(yss, l) ==
    IF l = 0 THEN yss
    ELSE IF l < 0
    THEN [i \in 1..Len(longer_than(yss, -l)) |->
            slice(longer_than(yss, -l)[i], 0, Len(longer_than(yss, -l)[i]) + l)]
    ELSE [i \in 1..Len(longer_than(yss, l)) |->
            slice(longer_than(yss, l)[i], l, Len(longer_than(yss, l)[i]))]

RECURSIVE flatten(_)
flatten(ss) == IF Len(ss) = 0 THEN <<>> ELSE Head(ss) \o flatten(Tail(ss))

\* np.concatenate raises ValueError on an empty list of arrays
can_concatenate(ss) == Len(ss) > 0

\* np.concatenate of a non-empty list of 1-D arrays
np_concatenate(ss) == flatten(ss)

\* One output of stats.cov_with_confidence, kept as an uninterpreted term of
\* its arguments; valid is FALSE where the primitive has no defined estimate.
stat_of(name, ax, ay, conf) ==
    [stat |-> name, x |-> ax, y |-> ay, conf |-> conf,
     valid |-> (Len(ax) = Len(ay) /\ Len(ax) >= 2), scaled |-> FALSE]

\* stats.cov_with_confidence(all_xs, all_ys, confidence)
cov_with_confidence(ax, ay, conf) ==
    [cov |-> stat_of("cov", ax, ay, conf), p_value |-> stat_of("p_value", ax, ay, conf),
     lb |-> stat_of("lb", ax, ay, conf), ub |-> stat_of("ub", ax, ay, conf)]

\* lines 132-134: a /= norm_factor
divide_all(a) == [k \in 1..Len(a) |-> [a[k] EXCEPT !.scaled = TRUE]]

(* ------------------------------ inputs -------------------------------- *)
\* a caller-supplied time index of length n: origin, origin + step, ...
TimeIndex(n, origin, step) == [i \in 1..n |-> origin + step * (i - 1)]

TimeIndexes(n) == {TimeIndex(n, o, s) : o \in 0..MaxOrigin, s \in 1..MaxStep}

\* a collection of series with the given lengths; every sample is distinct:
\* sample j of series i is base + 10 * i + j
Collection(lens, base) ==
    [i \in 1..Len(lens) |-> [j \in 1..lens[i] |-> base + 10 * (i - 1) + (j - 1)]]

Shapes == SeqsUpTo(0..MaxSerLen, MaxSeries)

\* the shapes of ys tried against a shape of xs: the same shape, one series
\* of another length, or one series more or fewer
NearShapes(a) ==
    {b \in Shapes :
        \/ /\ Len(b) = Len(a)
           /\ Cardinality({i \in 1..Len(a) : a[i] # b[i]}) <= 1
        \/ /\ Len(b) = Len(a) + 1
           /\ \A i \in 1..Len(a) : a[i] = b[i]
        \/ /\ Len(a) = Len(b) + 1
           /\ \A i \in 1..Len(b) : a[i] = b[i]}

(* ------------------------------ actions ------------------------------- *)
Init ==
    /\ pc = "idle" /\ op = "none" /\ status = "none"
    /\ bx = <<>> /\ x = <<>> /\ threshold = 0 /\ t_given = FALSE /\ t = <<>>
    /\ starts = <<>> /\ ends = <<>>
    /\ segments = <<>> /\ seg_shape = <<0, 0>> /\ peak_values = <<>> /\ lookups = {}
    /\ xs = <<>> /\ ys = <<>> /\ lag_backward = 0 /\ lag_forward = 0
    /\ normed = FALSE /\ lag = 0 /\ raised_at = 0
    /\ all_xs = <<>> /\ all_ys = <<>>
    /\ covs = <<>> /\ p_values = <<>> /\ lbs = <<>> /\ ubs = <<>>

SegmentBasic ==
    /\ pc = "idle"
    /\ \E b \in SeqsUpTo(BOOLEAN, MaxLen) :
       \E given \in BOOLEAN :
       \E tt \in IF given THEN TimeIndexes(Len(b)) \cup TimeIndexes(Len(b) + 1)
                 ELSE {<<>>} :
          LET r == segment_basic(b, given, tt)
          IN  /\ bx' = b /\ t_given' = given /\ t' = tt
              /\ status' = r.status
              /\ starts' = r.starts /\ ends' = r.ends
    /\ op' = "segment_basic"
    /\ pc' = IF status' = "ok" THEN "returned" ELSE "raised"
    /\ UNCHANGED <<x, threshold, segments, seg_shape, peak_values, lookups>>
    /\ UNCHANGED xcovVars

SegmentByThreshold ==
    /\ pc = "idle"
    /\ \E sig \in SeqsUpTo(0..MaxVal, MaxLen) :
       \E thr \in 0..(MaxVal - 1) :
       \E given \in BOOLEAN :
       \E tt \in IF given
                 THEN TimeIndexes(Len(sig) + 1) \cup {TimeIndex(Len(sig), 0, 1)}
                 ELSE {<<>>} :
          LET r == segment_by_threshold(sig, thr, given, tt)
          IN  /\ x' = sig /\ threshold' = thr /\ t_given' = given /\ t' = tt
              /\ status' = r.status
              /\ segments' = r.segments /\ seg_shape' = r.shape
              /\ peak_values' = r.peak_values /\ lookups' = r.lookups
    /\ op' = "segment_by_threshold"
    /\ pc' = IF status' = "ok" THEN "returned" ELSE "raised"
    /\ UNCHANGED <<bx, starts, ends>>
    /\ UNCHANGED xcovVars

\* lines 91-97: the shape check and the empty result lists
XcovCall ==
    /\ pc = "idle"
    /\ \E xlens \in Shapes : \E ylens \in NearShapes(xlens) :
          /\ xs' = Collection(xlens, 0)
          /\ ys' = Collection(ylens, 100)
    /\ \E b \in 0..MaxLag : lag_backward' = b
    /\ \E f \in 0..MaxLag : lag_forward' = f
    /\ \E n \in BOOLEAN : normed' = n
    /\ op' = "xcov_multi_with_confidence"
    /\ IF shape_ok(xs', ys')
       THEN /\ pc' = "loop" /\ status' = "running" /\ raised_at' = 0
       ELSE /\ pc' = "raised" /\ status' = "ValueError" /\ raised_at' = 92
    /\ lag' = -lag_backward'
    /\ UNCHANGED <<all_xs, all_ys, covs, p_values, lbs, ubs>>
    /\ UNCHANGED segVars

\* lines 99-120: one iteration of the loop over the lags
XcovLag ==
    /\ pc = "loop"
    /\ lag \in lag_range(lag_backward, lag_forward)
    /\ IF ~can_concatenate(x_rel(xs, lag))
       THEN /\ pc' = "raised" /\ status' = "ValueError" /\ raised_at' = 112
            /\ UNCHANGED <<lag, all_xs, all_ys, covs, p_values, lbs, ubs>>
       ELSE IF ~can_concatenate(y_rel(ys, lag))
       THEN /\ pc' = "raised" /\ status' = "ValueError" /\ raised_at' = 113
            /\ all_xs' = np_concatenate(x_rel(xs, lag))
            /\ UNCHANGED <<lag, all_ys, covs, p_values, lbs, ubs>>
       ELSE /\ all_xs' = np_concatenate(x_rel(xs, lag))
            /\ all_ys' = np_concatenate(y_rel(ys, lag))
            /\ LET r == cov_with_confidence(all_xs', all_ys', confidence)
               IN  /\ covs' = Append(covs, r.cov)
                   /\ p_values' = Append(p_values, r.p_value)
                   /\ lbs' = Append(lbs, r.lb)
                   /\ ubs' = Append(ubs, r.ub)
            /\ lag' = lag + 1
            /\ UNCHANGED <<pc, status, raised_at>>
    /\ UNCHANGED <<op, xs, ys, lag_backward, lag_forward, normed>>
    /\ UNCHANGED segVars

\* lines 122-136: the optional normalisation and the return
XcovReturn ==
    /\ pc = "loop"
    /\ lag \notin lag_range(lag_backward, lag_forward)
    /\ IF normed /\ ~can_concatenate(xs)
       THEN /\ pc' = "raised" /\ status' = "ValueError" /\ raised_at' = 129
            /\ UNCHANGED <<covs, lbs, ubs>>
       ELSE IF normed /\ ~can_concatenate(ys)
       THEN /\ pc' = "raised" /\ status' = "ValueError" /\ raised_at' = 130
            /\ UNCHANGED <<covs, lbs, ubs>>
       ELSE /\ pc' = "returned" /\ status' = "ok" /\ raised_at' = 0
            /\ covs' = IF normed THEN divide_all(covs) ELSE covs
            /\ lbs' = IF normed THEN divide_all(lbs) ELSE lbs
            /\ ubs' = IF normed THEN divide_all(ubs) ELSE ubs
    /\ UNCHANGED <<op, xs, ys, lag_backward, lag_forward, normed, lag,
                   all_xs, all_ys, p_values>>
    /\ UNCHANGED segVars

Next == SegmentBasic \/ SegmentByThreshold \/ XcovCall \/ XcovLag \/ XcovReturn

Spec == Init /\ [][Next]_vars

(* ------------------- notions the properties are stated in ------------- *)
\* the coordinate the returned fields give to sample position p
TimeAt(p) == IF t_given THEN t[p + 1] ELSE p

\* [s, e) is a maximal run of the set A of positions
IsMaxRun(A, s, e) ==
    /\ s < e
    /\ \A p \in s..(e - 1) : p \in A
    /\ (s - 1) \notin A
    /\ e \notin A

MaxRuns(A, n) == {r \in (0..n) \X (0..n) : IsMaxRun(A, r[1], r[2])}

\* the i-th run of R in ascending order
RunAt(R, i) == CHOOSE r \in R : Cardinality({q \in R : q[1] < r[1]}) = i - 1

TruePositions == {p \in 0..(Len(bx) - 1) : bx[p + 1]}

BasicRuns == MaxRuns(TruePositions, Len(bx))

BasicReturned == op = "segment_basic" /\ pc = "returned"

\* C1: with t omitted, segment_basic returns starts and ends of equal length
\* whose pairs [starts[i], ends[i]) are, in ascending order, exactly the
\* maximal runs of true values of x; an all-false x gives empty starts and
\* ends, an all-true x of length n >= 1 gives starts = [0] and ends = [n].
C1_RunsExact ==
    (op = "segment_basic" /\ ~t_given) =>
        /\ pc = "returned"
        /\ Len(starts) = Len(ends)
        /\ Len(starts) = Cardinality(BasicRuns)
        /\ \A i \in 1..Len(starts) : <<starts[i], ends[i]>> = RunAt(BasicRuns, i)
        /\ (TruePositions = {}) => (starts = <<>> /\ ends = <<>>)
        /\ (Len(bx) >= 1 /\ TruePositions = 0..(Len(bx) - 1)) =>
               (starts = <<0>> /\ ends = <<Len(bx)>>)

\* C1 witness: x has two runs, one at the first and one at the last sample.
C1_Witness ==
    /\ BasicReturned /\ ~t_given
    /\ Len(starts) = 2 /\ starts[1] = 0 /\ ends[2] = Len(bx)

\* C7 as stated: with t supplied, every start is t[s] and every end is t[e],
\* e being the position after the last true sample of the run.
C7_EndLookedUp ==
    (BasicReturned /\ t_given /\ Len(t) = Len(bx) + 1) =>
        \A i \in 1..Len(starts) :
            /\ starts[i] = t[RunAt(BasicRuns, i)[1] + 1]
            /\ ends[i] = t[RunAt(BasicRuns, i)[2] + 1]

\* C7 amended: with t supplied, every start is t[s] and every end is
\* t[e - 1] + 1: the coordinate of the last true sample of the run, plus one.
C7_EndIsLastPlusOne ==
    (BasicReturned /\ t_given) =>
        /\ Len(starts) = Cardinality(BasicRuns)
        /\ Len(ends) = Cardinality(BasicRuns)
        /\ \A i \in 1..Len(starts) :
            /\ starts[i] = t[RunAt(BasicRuns, i)[1] + 1]
            /\ ends[i] = t[RunAt(BasicRuns, i)[2]] + 1

\* C7 witness: a supplied t of length len(x) + 1 in which the returned end of
\* some run differs from t[e].
C7_Witness ==
    /\ BasicReturned /\ t_given /\ Len(t) = Len(bx) + 1
    /\ \E i \in 1..Len(ends) : ends[i] # t[RunAt(BasicRuns, i)[2] + 1]

(* ------------------------ segment_by_threshold ------------------------ *)
ThresholdReturned == op = "segment_by_threshold" /\ pc = "returned"

\* the field of row i: 1 start, 2 onset, 3 peak, 4 offset, 5 end
Start(i) == segments[i][1]
Onset(i) == segments[i][2]
Peak(i) == segments[i][3]
Offset(i) == segments[i][4]
End(i) == segments[i][5]

\* the sample position whose coordinate is v (the time indexes are injective)
PosOf(v) == CHOOSE p \in 0..Len(x) : TimeAt(p) = v

\* positions where the signal meets the threshold, as the contract words it
MeetsThreshold == {p \in 0..(Len(x) - 1) : x[p + 1] >= threshold}

\* positions where the signal exceeds the threshold
ExceedsThreshold == {p \in 0..(Len(x) - 1) : x[p + 1] > threshold}

\* C2: one row per maximal interval of positions where x >= threshold, its
\* onset and offset the interval's first position and one past its last; a
\* sample equal to the threshold is active; if no sample meets the
\* threshold the result is a zero-row, five-column table with no peak values.
C2_RowsAreMeetingIntervals ==
    ThresholdReturned =>
        LET R == MaxRuns(MeetsThreshold, Len(x))
        IN  /\ Len(segments) = Cardinality(R)
            /\ \A i \in 1..Len(segments) :
                  /\ Onset(i) = TimeAt(RunAt(R, i)[1])
                  /\ Offset(i) = TimeAt(RunAt(R, i)[2])
            /\ (R = {}) => (seg_shape = <<0, 5>> /\ peak_values = <<>>)

\* C3 as stated: with the default t, in every row
\* start <= onset <= peak < offset <= end, and end[i] <= start[i+1].
C3_OrderedWithNextStart ==
    (ThresholdReturned /\ ~t_given) =>
        \A i \in 1..Len(segments) :
            /\ Start(i) <= Onset(i) /\ Onset(i) <= Peak(i)
            /\ Peak(i) < Offset(i) /\ Offset(i) <= End(i)
            /\ (i < Len(segments)) => End(i) <= Start(i + 1)

\* C3 amended: with the default t, in every row
\* start <= onset <= peak < offset <= end, and for every row i that has a
\* successor start[i+1] < end[i]: the isolation windows of neighbouring rows
\* overlap in the gap between the two active intervals.
C3_OrderedWithinRow ==
    (ThresholdReturned /\ ~t_given) =>
        \A i \in 1..Len(segments) :
            /\ Start(i) <= Onset(i) /\ Onset(i) <= Peak(i)
            /\ Peak(i) < Offset(i) /\ Offset(i) <= End(i)
            /\ (i < Len(segments)) => Start(i + 1) < End(i)

\* C3 witness: two rows, the first with its peak after its onset, and the second
\* starting before the first ends.
C3_Witness ==
    /\ ThresholdReturned /\ ~t_given /\ Len(segments) = 2
    /\ Onset(1) < Peak(1) /\ Start(2) < End(1)

\* C8: in every row the peak field is the lowest position p of [onset, offset)
\* at which x attains its maximum over [onset, offset), returned as t[p] when
\* t is supplied, and the peak value of the row is x[p], not mapped through t.
C8_PeakIsFirstMaximum ==
    ThresholdReturned =>
        /\ Len(peak_values) = Len(segments)
        /\ \A i \in 1..Len(segments) :
              LET s == PosOf(Onset(i))
                  e == PosOf(Offset(i))
                  p == PosOf(Peak(i))
              IN  /\ Peak(i) = TimeAt(p)
                  /\ p \in s..(e - 1)
                  /\ \A q \in s..(e - 1) : x[q + 1] <= x[p + 1]
                  /\ \A q \in s..(p - 1) : x[q + 1] < x[p + 1]
                  /\ peak_values[i] = x[p + 1]

\* C8 witness: a supplied t with spacing 2 and a row whose maximum is attained
\* twice, first after the onset, the peak value differing from the peak field.
C8_Witness ==
    /\ ThresholdReturned /\ t_given /\ Len(t) >= 2 /\ t[2] - t[1] = 2
    /\ \E i \in 1..Len(segments) :
          /\ PosOf(Onset(i)) < PosOf(Peak(i))
          /\ \E q \in (PosOf(Peak(i)) + 1)..(PosOf(Offset(i)) - 1) :
                x[q + 1] = peak_values[i]
          /\ peak_values[i] # Peak(i)

\* C9: with k >= 1 rows and t omitted or of length len(x) + 1, start of the
\* first row is t[0], start of every later row is the offset field of the row
\* before, end of every row but the last is the onset field of the row after,
\* end of the last row is t[len(x)], and every lookup into t is at a position
\* in 0..len(x).
C9_StartsAndEndsBridge ==
    (op = "segment_by_threshold" /\ (~t_given \/ Len(t) = Len(x) + 1)) =>
        /\ pc = "returned"
        /\ lookups \subseteq 0..Len(x)
        /\ \A i \in 1..Len(segments) :
              /\ Start(i) = IF i = 1 THEN TimeAt(0) ELSE Offset(i - 1)
              /\ End(i) = IF i = Len(segments) THEN TimeAt(Len(x)) ELSE Onset(i + 1)

\* C9 witness: a supplied t not starting at 0, two rows, a gap before the first
\* row and t[len(x)] looked up.
C9_Witness ==
    /\ ThresholdReturned /\ t_given /\ Len(t) = Len(x) + 1 /\ t[1] # 0
    /\ Len(segments) = 2 /\ Len(x) \in lookups
    /\ Start(1) < Onset(1) /\ Start(2) = Offset(1) /\ End(1) = Onset(2)

(* --------------------- xcov_multi_with_confidence --------------------- *)
XcovReturned == op = "xcov_multi_with_confidence" /\ pc = "returned"

\* the precondition: as many ys as xs, and paired series of equal length
Precondition ==
    /\ Len(xs) = Len(ys)
    /\ \A i \in 1..Len(xs) : Len(xs[i]) = Len(ys[i])

\* both collections hold at least one series and no series is empty
NonDegenerate ==
    /\ Len(xs) >= 1 /\ Len(ys) >= 1
    /\ \A i \in 1..Len(xs) : Len(xs[i]) >= 1
    /\ \A i \in 1..Len(ys) : Len(ys[i]) >= 1

Abs(l) == IF l < 0 THEN -l ELSE l

\* the pairs (xs[i][j], ys[i][j + l]) of series i, over every j for which
\* both positions lie inside the series, in ascending j
PairsOfSeries(i, l) ==
    [k \in 1..(Len(xs[i]) - Abs(l)) |->
        LET j == (k - 1) + (IF l < 0 THEN -l ELSE 0)
        IN  <<xs[i][j + 1], ys[i][j + l + 1]>>]

RECURSIVE PairsUpTo(_, _)
\* the pairs of series 1..n at lag l, in series order
PairsUpTo(n, l) == IF n = 0 THEN <<>> ELSE PairsUpTo(n - 1, l) \o PairsOfSeries(n, l)

PooledPairs(l) == PairsUpTo(Len(xs), l)

\* the k-th elements of two equally long sequences, paired
Zip(a, b) == [k \in 1..Len(a) |-> <<a[k], b[k]>>]

\* the series that survive the length filter at lag l
Retained(l) == {i \in 1..Len(xs) : l = 0 \/ Len(xs[i]) > Abs(l)}

\* C4: whenever xs and ys differ in length or some paired series differ in
\* length, the call fails with the ValueError of the shape check before any
\* covariance is computed.
C4_MismatchRejected ==
    (op = "xcov_multi_with_confidence" /\ NonDegenerate /\ ~Precondition) =>
        (pc = "raised" /\ raised_at = 92 /\ covs = <<>>)

\* C5: when at some lag of the range every series is too short to be
\* retained, the call still returns a result for every lag.
C5_EmptyLagDoesNotAbort ==
    (/\ op = "xcov_multi_with_confidence" /\ pc # "loop" /\ Precondition
     /\ NonDegenerate
     /\ \E l \in lag_range(lag_backward, lag_forward) : Retained(l) = {}) =>
        (pc = "returned" /\ Len(covs) = lag_backward + lag_forward)

\* entry k of a returned sequence is the primitive's output for lag l
IsResultFor(entry, l) ==
    /\ Len(entry.x) = Len(entry.y)
    /\ Zip(entry.x, entry.y) = PooledPairs(l)

LengthsAndOrder ==
    /\ Len(covs) = lag_backward + lag_forward
    /\ Len(p_values) = lag_backward + lag_forward
    /\ Len(lbs) = lag_backward + lag_forward
    /\ Len(ubs) = lag_backward + lag_forward
    /\ \A k \in 1..Len(covs) :
          /\ IsResultFor(covs[k], k - 1 - lag_backward)
          /\ IsResultFor(p_values[k], k - 1 - lag_backward)
          /\ IsResultFor(lbs[k], k - 1 - lag_backward)
          /\ IsResultFor(ubs[k], k - 1 - lag_backward)

\* C6 as stated: each returned sequence has length lag_backward + lag_forward,
\* in ascending lag order, and lag 0 is included, at index lag_backward.
C6_LagZeroAlwaysIncluded ==
    (XcovReturned /\ Precondition /\ NonDegenerate) =>
        /\ LengthsAndOrder
        /\ (lag_backward + 1) \in 1..Len(covs)
        /\ IsResultFor(covs[lag_backward + 1], 0)

\* C6 amended: each returned sequence has length lag_backward + lag_forward,
\* in ascending lag order from -lag_backward; lag 0 is included, at index
\* lag_backward, exactly when lag_forward >= 1.
C6_LagZeroWhenForward ==
    (XcovReturned /\ Precondition) =>
        /\ LengthsAndOrder
        /\ (lag_forward >= 1) <=> ((lag_backward + 1) \in 1..Len(covs))
        /\ (lag_forward >= 1) => IsResultFor(covs[lag_backward + 1], 0)

\* C6 witness: a returned call over the lags -1, 0, 1 with three distinct entries.
C6_Witness ==
    /\ XcovReturned /\ Precondition
    /\ lag_backward = 1 /\ lag_forward = 2 /\ Len(covs) = 3
    /\ covs[1] # covs[2] /\ covs[2] # covs[3]

\* C10: the two pooled sequences handed to the covariance primitive at lag l
\* have equal length and their k-th elements are the pairs
\* (xs[i][j], ys[i][j + l]): every series whole for l = 0, and for l # 0
\* exactly the series longer than |l|, each with its len - |l| pairs, in
\* series order then ascending j.
C10_PooledPairsAligned ==
    (/\ op = "xcov_multi_with_confidence" /\ pc \in {"loop", "returned"}
     /\ Precondition /\ Len(covs) >= 1) =>
        /\ Len(all_xs) = Len(all_ys)
        /\ Zip(all_xs, all_ys) = PooledPairs(-lag_backward + Len(covs) - 1)
        /\ \A k \in 1..Len(covs) : IsResultFor(covs[k], k - 1 - lag_backward)

\* C10 witness: the primitive was called at a negative lag at which one series
\* was dropped and another retained.
C10_Witness ==
    /\ op = "xcov_multi_with_confidence" /\ pc = "loop" /\ Precondition
    /\ NonDegenerate
    /\ Len(covs) >= 1 /\ lag - 1 < 0
    /\ Retained(lag - 1) # {} /\ Retained(lag - 1) # 1..Len(xs)
    /\ Len(all_xs) >= 1

====
